---------------------------- MODULE Spec2Model ----------------------------
(***************************************************************************)
(* Model of scripts/latest-bill-text.py: for every bill of the data tree   *)
(* pick the latest text-version descriptor, stage the winners in a scratch *)
(* directory and swap the scratch directory into latest_billtext.          *)
(*                                                                         *)
(* Time is counted in ticks; a calendar day has TicksPerDay ticks.  A      *)
(* string is a sequence of tokens: a date "YYYY-MM-DD", the letter T, a    *)
(* time of day "HH:00:00", a UTC offset "+HH:00", the letter Z, one space  *)
(* " ", and the word "junk".  A path is a                                  *)
(* sequence of segments, a bill key the triple of segments that the        *)
(* script joins with "/" and splits again (path segments hold no "/").     *)
(*                                                                         *)
(* Faults of the environment: the write of a synthesized descriptor may     *)
(* fail, before or after the file is created; creating a destination       *)
(* directory, copying a descriptor (its content, or its metadata after the *)
(* content), the rename of either move and every step of the copytree it   *)
(* falls back to, the closing copystat included, may fail; a failed copy   *)
(* may leave the file cut short.  The handler's removal of the scratch     *)
(* directory may fail (lines 354-358 provide for it).  The other removals  *)
(* of a directory tree and reading file metadata succeed.                  *)
(***************************************************************************)
EXTENDS Integers, Sequences, FiniteSets, TLC

\* ------------------------------------------------------------- bounds
MaxDay == 2
MaxTime == 3
TicksPerDay == 2
MaxGroup == 2
MaxPathLen == 5
MaxRuns == 2

VARIABLES
    data,         \* the input tree: version directory index -> its state
    out,          \* the directory latest_billtext
    backup,       \* the directory latest_billtext.backup
    tmpdir,       \* the scratch directory of this run
    leaked,       \* scratch directories earlier runs left behind
    pc,           \* position of the script
    run,          \* number of the run in progress
    text_files,   \* sorted list of descriptor paths
    fi,           \* number of text_files already grouped
    groups,       \* bill key -> list of descriptor paths
    skipped,      \* unrecognized paths counted
    ki,           \* number of groups already processed
    picked,       \* winners staged
    backupBound,  \* whether the name "backup" is bound (line 345 ran)
    exc,          \* exception in flight: "none", "TypeError", "OSError", "Error"
    failPhase,    \* where it was raised: "none", "staging", "move1", "move2"
    exitCode,     \* -1 while running, 0 normal end, 1 uncaught error, 2 sys.exit(2)
    winner,       \* bill key -> path of the descriptor picked (this run)
    out0,         \* latest_billtext as it was when the run started
    backup0,      \* the backup location as it was when the run started
    swapStarted,  \* a step of the swap has run in this run
    created,      \* descriptors written by ensure_data_jsons in this run
    prev,         \* what the previous run ended with
    cp,           \* progress of the copytree a move fell back to
    swallowed,    \* the handler's rmtree failed and the failure was passed over
    selIn,        \* a group handed to the selector (list of descriptor files)
    selOut        \* the selector's result for selIn

vars == << data, out, backup, tmpdir, leaked, pc, run, text_files, fi, groups,
           skipped, ki, picked, backupBound, exc, failPhase, exitCode, winner,
           out0, backup0, swapStarted, created, prev, cp, swallowed, selIn, selOut >>

\* ------------------------------------------------------------- strings and JSON values
DateTok(d) == [t |-> "date", v |-> d]
SepTok == [t |-> "T", v |-> 0]
TimeTok(h) == [t |-> "time", v |-> h]
OffTok(o) == [t |-> "off", v |-> o]
ZTok == [t |-> "Z", v |-> 0]
JunkTok == [t |-> "junk", v |-> 0]
SpTok == [t |-> "sp", v |-> 0]

Null == [ty |-> "null", s |-> << >>]
Num == [ty |-> "num", s |-> << >>]
Str(s) == [ty |-> "str", s |-> s]

\* Python truthiness of a JSON value: None and "" are falsy, a non-zero number is truthy.
Truthy(v) == v.ty = "num" \/ (v.ty = "str" /\ v.s # << >>)

\* a or b or c
FirstTruthy(a, b, c) == IF Truthy(a) THEN a ELSE IF Truthy(b) THEN b ELSE c

\* ------------------------------------------------------------- datetimes
NoneDt == [kind |-> "none", local |-> 0, off |-> 0]
Naive(l) == [kind |-> "naive", local |-> l, off |-> 0]
Aware(l, o) == [kind |-> "aware", local |-> l, off |-> o]

\* The instant (in UTC ticks) of an aware datetime.
Instant(dt) == dt.local - dt.off

\* datetime.fromisoformat on a token string (Python 3.11); kind "none" stands
\* for ValueError.  After the date any single character separates date and time:
\* the letter T or Z or a space followed by a time of day, or the sign of an
\* offset token, whose "HH:00" is then read as the time of day.  A timezone may
\* follow the time, an offset or Z, with one letter T or one space tolerated
\* before it.
fromisoformat(s) ==
    IF s = << >> \/ s[1].t # "date" THEN NoneDt
    ELSE IF Len(s) = 1 THEN Naive(s[1].v * TicksPerDay)
    ELSE LET withSep == s[2].t \in {"T", "Z", "sp"} /\ Len(s) >= 3 /\ s[3].t = "time"
             signSep == s[2].t = "off"
             h == IF signSep THEN s[2].v ELSE s[3].v
             rest == IF signSep THEN SubSeq(s, 3, Len(s)) ELSE SubSeq(s, 4, Len(s))
             tz == IF rest # << >> /\ rest[1].t \in {"T", "sp"} THEN Tail(rest) ELSE rest
             local == s[1].v * TicksPerDay + h
         IN  IF ~(withSep \/ signSep) THEN NoneDt
             ELSE IF rest = << >> THEN Naive(local)
             ELSE IF Len(tz) = 1 /\ tz[1].t = "off" THEN Aware(local, tz[1].v)
             ELSE IF Len(tz) = 1 /\ tz[1].t = "Z" THEN Aware(local, 0)
             ELSE NoneDt

\* s.split("T")[0]
RECURSIVE BeforeT(_)
BeforeT(s) ==
    IF s = << >> THEN << >>
    ELSE IF Head(s).t = "T" THEN << >>
    ELSE << Head(s) >> \o BeforeT(Tail(s))

parse_date(v) ==
    IF ~Truthy(v) \/ v.ty # "str" THEN NoneDt
    ELSE LET s == v.s
             first == IF s[Len(s)].t = "Z"
                      THEN fromisoformat(SubSeq(s, 1, Len(s) - 1) \o << OffTok(0) >>)
                      ELSE fromisoformat(s)
         IN  IF first.kind # "none" THEN first
             ELSE fromisoformat(BeforeT(s))

\* A descriptor file: content c, modification time m, ex whether stat succeeds.
mtime_dt(f) == IF f.ex THEN Aware(f.m, 0) ELSE Aware(0, 0)

\* datetime comparison: mixing naive and aware raises TypeError for >, is False for ==.
Comparable(a, b) == a.kind = b.kind
DtGt(a, b) == IF a.kind = "aware" THEN Instant(a) > Instant(b) ELSE a.local > b.local
DtEq(a, b) == /\ a.kind = b.kind
              /\ IF a.kind = "aware" THEN Instant(a) = Instant(b) ELSE a.local = b.local

\* ------------------------------------------------------------- selection (lines 311-326)
\* dt_primary of a candidate: the parsed date, else the file's mtime.
candidate_date(f) ==
    LET c == f.c
        parsed == IF c.json # "object" THEN NoneDt
                  ELSE parse_date(FirstTruthy(c.issued_on, c.issued, c.date))
    IN  IF parsed.kind = "none" THEN mtime_dt(f) ELSE parsed

Cand(f, i) == [st |-> "some", dt |-> candidate_date(f), tie |-> mtime_dt(f), i |-> i]
NoBest == [st |-> "none", dt |-> NoneDt, tie |-> NoneDt, i |-> 0]
PickError == [st |-> "error", dt |-> NoneDt, tie |-> NoneDt, i |-> 0]

\* Better with the tie-break comparison written >= (a later equal member replaces the best).
BetterOrEqual(cand, best) ==
    \/ DtGt(cand.dt, best.dt)
    \/ (DtEq(cand.dt, best.dt) /\ (DtGt(cand.tie, best.tie) \/ DtEq(cand.tie, best.tie)))

\* cand[0] > best[0] or (cand[0] == best[0] and cand[1] > best[1])
Better(cand, best) ==
    \/ DtGt(cand.dt, best.dt)
    \/ (DtEq(cand.dt, best.dt) /\ DtGt(cand.tie, best.tie))

\* The loop over a group's members, from member i on, with best so far.
RECURSIVE PickFrom(_, _, _)
PickFrom(files, i, best) ==
    IF i > Len(files) THEN best
    ELSE LET cand == Cand(files[i], i)
         IN  IF best.st = "none" THEN PickFrom(files, i + 1, cand)
             ELSE IF ~Comparable(cand.dt, best.dt) THEN PickError
             ELSE IF Better(cand, best) THEN PickFrom(files, i + 1, cand)
             ELSE PickFrom(files, i + 1, best)

PickBest(files) == PickFrom(files, 1, NoBest)

\* ------------------------------------------------------------- path classification
RECURSIVE IndexOf(_, _, _)
IndexOf(parts, x, i) ==
    IF i > Len(parts) THEN 0
    ELSE IF parts[i] = x THEN i
    ELSE IndexOf(parts, x, i + 1)

NoKey == << >>

\* key_from_path asking for one segment more after "bills" than it reads.
key_from_path_strict(parts) ==
    LET bi == IndexOf(parts, "bills", 1)
    IN  IF bi >= 2 /\ Len(parts) > bi + 2
        THEN << parts[bi - 1], parts[bi + 1], parts[bi + 2] >>
        ELSE NoKey

\* key_from_path (lines 35-44).  parts.index("bills") is 0-based in the source,
\* IndexOf is 1-based (0: absent).  The key "congress/bill_type/bill_id" is kept
\* as its three fields, which is what key.split("/", 2) (line 329) gives back:
\* a path segment holds no "/".
key_from_path(parts) ==
    LET bi == IndexOf(parts, "bills", 1)
    IN  IF bi >= 2 /\ Len(parts) >= bi + 2
        THEN << parts[bi - 1], parts[bi + 1], parts[bi + 2] >>
        ELSE NoKey

\* ------------------------------------------------------------- sorting
\* Position of a segment in Python's string order, among the segments used here.
SegRank(s) ==
    CASE s = "117" -> 1 [] s = "118" -> 2 [] s = "bills" -> 3 [] s = "data" -> 4
      [] s = "data.json" -> 5 [] s = "eh" -> 6 [] s = "hr" -> 7 [] s = "hr1" -> 8
      [] s = "hr9" -> 9 [] s = "ih" -> 10 [] s = "is" -> 11 [] s = "s" -> 12
      [] s = "s2" -> 13 [] s = "text-versions" -> 14

\* Lexicographic order on sequences of segments (tuples of path parts).
RECURSIVE SeqLess(_, _)
SeqLess(a, b) ==
    IF b = << >> THEN FALSE
    ELSE IF a = << >> THEN TRUE
    ELSE IF SegRank(Head(a)) # SegRank(Head(b)) THEN SegRank(Head(a)) < SegRank(Head(b))
    ELSE SeqLess(Tail(a), Tail(b))

\* sorted(S) for a set of segment sequences.
RECURSIVE Sorted(_)
Sorted(S) ==
    IF S = {} THEN << >>
    ELSE LET m == CHOOSE x \in S : \A y \in S \ {x} : SeqLess(x, y)
         IN  << m >> \o Sorted(S \ {m})

\* ------------------------------------------------------------- the data tree
\* The version directories of the data tree, in sorted order.
VersionDirs ==
    << << "data", "118", "bills", "hr", "hr1", "text-versions", "eh" >>,
       << "data", "118", "bills", "hr", "hr1", "text-versions", "ih" >>,
       << "data", "118", "bills", "s", "s2", "text-versions", "is" >> >>

VIdx == 1..Len(VersionDirs)

\* target = tv / "data.json"
DescPath(i) == VersionDirs[i] \o << "data.json" >>

VIdxOfPath(p) == CHOOSE i \in VIdx : DescPath(i) = p

Times == 1..MaxTime

\* Times at which the script may write a file: any time of the input tree, or
\* later than all of them.
Clock == 1..(MaxTime + 1)
Days == 1..MaxDay

\* A descriptor's content.  body stands for the bytes other than the date fields.
ObjDesc(io, is, da, b) ==
    [json |-> "object", issued_on |-> io, issued |-> is, date |-> da,
     body |-> b, synth |-> FALSE]
Malformed(b) ==
    [json |-> "malformed", issued_on |-> Null, issued |-> Null, date |-> Null,
     body |-> b, synth |-> FALSE]
ArrayDesc(b) ==
    [json |-> "array", issued_on |-> Null, issued |-> Null, date |-> Null,
     body |-> b, synth |-> FALSE]

NoDesc == Malformed(0)

\* A version directory: absent, holding a descriptor, or holding none (then mods is
\* what find_date_in_mods yields from its mods.xml, Null when there is no date or no
\* mods.xml, dmtime the directory's modification time, and write what becomes
\* of writing data.json in it: "ok", "refused" (the file cannot be opened) or
\* "cut" (the file is created and the write fails, leaving no valid JSON).
AbsentDir ==
    [present |-> FALSE, hasDesc |-> FALSE, desc |-> NoDesc, mtime |-> 0,
     mods |-> Null, dmtime |-> 0, write |-> "ok"]
DirWithDesc(c, m) ==
    [present |-> TRUE, hasDesc |-> TRUE, desc |-> c, mtime |-> m,
     mods |-> Null, dmtime |-> 0, write |-> "ok"]
DirWithoutDesc(mods, dm, w) ==
    [present |-> TRUE, hasDesc |-> FALSE, desc |-> NoDesc, mtime |-> 0,
     mods |-> mods, dmtime |-> dm, write |-> w]

\* Descriptors a version directory of the input tree may hold.
InputDescs(i) ==
    {ObjDesc(Str(<< DateTok(d) >>), Null, Null, i) : d \in Days} \cup {Malformed(i)}

\* States of a version directory of bill hr1 in the input tree.
InputDirs(i) ==
    {AbsentDir}
    \cup {DirWithDesc(c, m) : c \in InputDescs(i), m \in Times}
    \cup {DirWithoutDesc(Null, MaxTime, "ok"), DirWithoutDesc(Null, MaxTime, "refused"),
          DirWithoutDesc(Null, MaxTime, "cut"),
          DirWithoutDesc(Str(<< JunkTok >>), 0, "ok")}

\* States of the version directory of bill s2 in the input tree.
OtherBillDirs(i) ==
    {AbsentDir, DirWithDesc(ObjDesc(Str(<< DateTok(1) >>), Null, Null, i), 1),
     DirWithoutDesc(Null, MaxTime, "ok")}

\* The descriptor file at a path of the data tree.
FileAt(p) ==
    LET d == data[VIdxOfPath(p)]
    IN  [c |-> d.desc, m |-> d.mtime, ex |-> d.present /\ d.hasDesc]

\* ------------------------------------------------------------- directory trees
\* A directory of the published layout: dirs are the bill keys whose directory
\* <congress>/bills/<type>/<id> exists, files the data.json files, as (key, file).
AbsentTree == [ex |-> FALSE, dirs |-> {}, files |-> {}]
EmptyDir == [ex |-> TRUE, dirs |-> {}, files |-> {}]

OldKey == << "117", "hr", "hr9" >>
OldFile == [c |-> ObjDesc(Str(<< DateTok(1) >>), Null, Null, 9), m |-> 1]
OldTree == [ex |-> TRUE, dirs |-> {OldKey}, files |-> {<< OldKey, OldFile >>}]
StaleTree == [ex |-> TRUE, dirs |-> {OldKey}, files |-> {}]

\* shutil.copy2: the content and the modification time.
Copied(f) == [c |-> f.c, m |-> f.m]

\* The time at which a run copies: after its descriptors are written, the last
\* value of the clock. The script reads the modification times of the data tree
\* only, never those of the scratch, published or backup trees, so one value
\* stands for the time of every copy.
CopyTime == MaxTime + 1

\* What a failed shutil.copy2 may leave at the destination: the content cut
\* short (copyfile failed part-way) or whole (copystat failed) with the time of
\* the copy, or whole with the time of the source (copystat failed after it had
\* set the times).
LeftByFailedCopy(f) ==
    {[c |-> Malformed(f.c.body), m |-> CopyTime], [c |-> f.c, m |-> CopyTime],
     [c |-> f.c, m |-> f.m]}

\* What a failed shutil.rmtree may leave of a tree: a directory goes after its
\* file.
LeftByFailedRmtree(t) ==
    UNION {{[ex |-> TRUE, dirs |-> d, files |-> f] :
               f \in SUBSET {e \in t.files : e[1] \in d}} : d \in SUBSET t.dirs}

\* State of a copytree: the bill directories gone through, the one whose
\* directory is made and whose file is still to copy, and whether an error was
\* collected.
NoCopy == [done |-> {}, cur |-> << >>, err |-> FALSE]

\* ------------------------------------------------------------- the run
NoExtras == selIn = << >> /\ selOut = NoBest

LocalsAtStart ==
    /\ pc = "start"
    /\ text_files = << >> /\ fi = 0 /\ groups = << >> /\ skipped = 0
    /\ ki = 0 /\ picked = 0 /\ backupBound = FALSE
    /\ exc = "none" /\ failPhase = "none" /\ exitCode = -1
    /\ winner = << >> /\ swapStarted = FALSE /\ created = 0
    /\ tmpdir = AbsentTree /\ cp = NoCopy /\ swallowed = FALSE

NoPrev == [ended |-> "none", out |-> AbsentTree, winner |-> << >>, data |-> << >>,
           changed |-> FALSE]

Init ==
    /\ \E d1 \in InputDirs(1), d2 \in InputDirs(2), d3 \in OtherBillDirs(3) :
           data = << d1, d2, d3 >>
    /\ out \in {AbsentTree, OldTree}
    /\ backup \in {AbsentTree, StaleTree}
    /\ out0 = out /\ backup0 = backup
    /\ run = 1 /\ leaked = 0 /\ prev = NoPrev
    /\ LocalsAtStart
    /\ NoExtras

\* What ensure_data_jsons writes for version directory i (lines 239-271).
Synthesized(i) ==
    LET d == data[i]
        issued == IF Truthy(d.mods) THEN d.mods
                  ELSE Str(<< DateTok(d.dmtime \div TicksPerDay) >>)
    IN  [json |-> "object", issued_on |-> issued, issued |-> Null, date |-> Null,
         body |-> i, synth |-> TRUE]

\* Every version directory, whether or not it holds a descriptor already.
AllPresent == {i \in VIdx : data[i].present}

\* The directories ensure_data_jsons writes into (lines 211-216): tv.is_dir() and
\* not target.exists().
NeedsDesc == {i \in VIdx : data[i].present /\ ~data[i].hasDesc}

\* ensure_data_jsons(): every version directory without data.json gets one,
\* unless the write fails (lines 273-280: reported, not counted, the loop goes
\* on), with no file or with a file cut short; the files are written in sorted
\* order, at times that do not decrease and may be later than every
\* modification time of the input tree.
ensure_data_jsons ==
    /\ pc = "start"
    /\ LET written == {i \in NeedsDesc : data[i].write = "ok"}
           cut == {i \in NeedsDesc : data[i].write = "cut"}
       IN  /\ \E stamp \in [VIdx -> Clock] :
                 /\ \A i \in VIdx : i \notin written \cup cut => stamp[i] = 1
                 /\ \A i, j \in written \cup cut : i < j => stamp[i] <= stamp[j]
                 /\ data' = [i \in VIdx |->
                               IF i \in written \cup cut
                               THEN [data[i] EXCEPT
                                       !.hasDesc = TRUE,
                                       !.desc = IF i \in written THEN Synthesized(i)
                                                ELSE Malformed(i),
                                       !.mtime = stamp[i],
                                       !.dmtime = stamp[i],
                                       !.write = "ok"]
                               ELSE data[i]]
           /\ created' = Cardinality(written)
    /\ pc' = "gather"
    /\ UNCHANGED << out, backup, tmpdir, leaked, run, text_files, fi, groups, skipped,
                    ki, picked, backupBound, exc, failPhase, exitCode, winner, out0,
                    backup0, swapStarted, prev, cp, swallowed, selIn, selOut >>

\* text_files = sorted(... rglob ... if p.is_file())
Gather ==
    /\ pc = "gather"
    /\ text_files' = Sorted({DescPath(i) : i \in {j \in VIdx : data[j].present /\ data[j].hasDesc}})
    /\ fi' = 0
    /\ pc' = IF text_files' = << >> THEN "mktemp" ELSE "group"
    /\ UNCHANGED << data, out, backup, tmpdir, leaked, run, groups, skipped, ki, picked,
                    backupBound, exc, failPhase, exitCode, winner, out0, backup0,
                    swapStarted, created, prev, cp, swallowed, selIn, selOut >>

\* groups[k] = [p]: a later member replaces the list.
AddToGroupOverwrite(g, k, p) ==
    IF k \in DOMAIN g THEN [g EXCEPT ![k] = << p >>] ELSE g @@ (k :> << p >>)

\* groups.setdefault(k, []).append(p)
AddToGroup(g, k, p) ==
    IF k \in DOMAIN g THEN [g EXCEPT ![k] = Append(@, p)] ELSE g @@ (k :> << p >>)

\* One iteration of the grouping loop (lines 297-303).
GroupStep ==
    /\ pc = "group"
    /\ fi < Len(text_files)
    /\ LET p == text_files[fi + 1]
           k == key_from_path(p)
       IN  IF k = NoKey
           THEN /\ skipped' = skipped + 1
                /\ groups' = groups
           ELSE /\ groups' = AddToGroup(groups, k, p)
                /\ skipped' = skipped
    /\ fi' = fi + 1
    /\ pc' = IF fi' = Len(text_files) THEN "mktemp" ELSE "group"
    /\ UNCHANGED << data, out, backup, tmpdir, leaked, run, text_files, ki, picked,
                    backupBound, exc, failPhase, exitCode, winner, out0, backup0,
                    swapStarted, created, prev, cp, swallowed, selIn, selOut >>

\* tmpdir = pathlib.Path(tempfile.mkdtemp(...))
MkTemp ==
    /\ pc = "mktemp"
    /\ tmpdir' = EmptyDir
    /\ ki' = 0
    /\ pc' = IF DOMAIN groups = {} THEN "check" ELSE "stage"
    /\ UNCHANGED << data, out, backup, leaked, run, text_files, fi, groups, skipped,
                    picked, backupBound, exc, failPhase, exitCode, winner, out0,
                    backup0, swapStarted, created, prev, cp, swallowed, selIn, selOut >>

\* sorted(groups.keys())
SortedKeys == Sorted(DOMAIN groups)

GroupFiles(k) == [j \in 1..Len(groups[k]) |-> FileAt(groups[k][j])]

Raise(e, phase) ==
    /\ exc' = e
    /\ failPhase' = phase
    /\ pc' = "handler"

\* One iteration of the loop over the groups (lines 310-336): pick the best member,
\* create the destination directory, copy the descriptor.  dest.mkdir may fail,
\* and copy2 before it has written anything, part-way, or after the content.
StageGroup ==
    /\ pc = "stage"
    /\ ki < Len(SortedKeys)
    /\ LET key == SortedKeys[ki + 1]
           best == PickBest(GroupFiles(key))
           f == Copied(FileAt(groups[key][best.i]))
       IN  IF best.st = "error"
           THEN /\ Raise("TypeError", "staging")
                /\ UNCHANGED << tmpdir, picked, winner, ki >>
           ELSE \/ /\ tmpdir' = [tmpdir EXCEPT !.dirs = @ \cup {key},
                                         !.files = @ \cup {<< key, f >>}]
                   /\ picked' = picked + 1
                   /\ winner' = winner @@ (key :> groups[key][best.i])
                   /\ ki' = ki + 1
                   /\ pc' = IF ki' = Len(SortedKeys) THEN "check" ELSE "stage"
                   /\ UNCHANGED << exc, failPhase >>
                \/ /\ Raise("OSError", "staging")
                   /\ UNCHANGED << tmpdir, picked, winner, ki >>
                \/ /\ Raise("OSError", "staging")
                   /\ tmpdir' = [tmpdir EXCEPT !.dirs = @ \cup {key}]
                   /\ UNCHANGED << picked, winner, ki >>
                \/ /\ Raise("OSError", "staging")
                   /\ \E g \in LeftByFailedCopy(f) :
                         tmpdir' = [tmpdir EXCEPT !.dirs = @ \cup {key},
                                                  !.files = @ \cup {<< key, g >>}]
                   /\ UNCHANGED << picked, winner, ki >>
    /\ UNCHANGED << data, out, backup, leaked, run, text_files, fi, groups, skipped,
                    backupBound, exitCode, out0, backup0, swapStarted, created, prev,
                    cp, swallowed, selIn, selOut >>

CheckPickedNoGuard ==
    /\ pc = "check"
    /\ backupBound' = out.ex
    /\ pc' = IF out.ex THEN (IF backup.ex THEN "rmstale" ELSE "move1") ELSE "move2"
    /\ UNCHANGED << data, out, backup, tmpdir, leaked, run, text_files, fi, groups,
                    skipped, ki, picked, exc, failPhase, exitCode, winner, out0, backup0,
                    swapStarted, created, prev, cp, swallowed, selIn, selOut >>

\* Lines 338-346: sys.exit(2) when nothing was picked; else the tests that open
\* the swap (out.exists(), backup.exists()).
CheckPicked ==
    /\ pc = "check"
    /\ IF picked = 0
       THEN /\ exitCode' = 2
            /\ pc' = "exit2"
            /\ UNCHANGED backupBound
       ELSE /\ backupBound' = out.ex
            /\ pc' = IF out.ex THEN (IF backup.ex THEN "rmstale" ELSE "move1")
                     ELSE "move2"
            /\ UNCHANGED exitCode
    /\ UNCHANGED << data, out, backup, tmpdir, leaked, run, text_files, fi, groups,
                    skipped, ki, picked, exc, failPhase, winner, out0, backup0,
                    swapStarted, created, prev, cp, swallowed, selIn, selOut >>

SwapFrame ==
    UNCHANGED << data, leaked, run, text_files, fi, groups, skipped, ki, picked,
                 backupBound, exitCode, winner, out0, backup0, created, prev,
                 swallowed, selIn, selOut >>

\* shutil.rmtree(backup), line 347
RmStale ==
    /\ pc = "rmstale"
    /\ backup' = AbsentTree
    /\ swapStarted' = TRUE
    /\ pc' = "move1"
    /\ UNCHANGED << out, tmpdir, exc, failPhase, cp >>
    /\ SwapFrame

\* shutil.move(str(out), str(backup)), line 348, with the rename losing the old tree.
Move1DropsOld ==
    /\ pc = "move1"
    /\ swapStarted' = TRUE
    /\ out' = AbsentTree
    /\ backup' = EmptyDir
    /\ pc' = "move2"
    /\ UNCHANGED << tmpdir, exc, failPhase, cp >>
    /\ SwapFrame

\* shutil.move(str(out), str(backup)), line 348: os.rename; when that fails,
\* copytree, which first creates the destination directory.
Move1Rename ==
    /\ pc = "move1"
    /\ swapStarted' = TRUE
    /\ \/ /\ backup' = out
          /\ out' = AbsentTree
          /\ pc' = "move2"
          /\ UNCHANGED << tmpdir, exc, failPhase >>
       \/ /\ backup' = EmptyDir
          /\ pc' = "move1copy"
          /\ UNCHANGED << out, tmpdir, exc, failPhase >>
       \/ /\ Raise("OSError", "move1")
          /\ UNCHANGED << out, backup, tmpdir >>
    /\ cp' = NoCopy
    /\ SwapFrame

\* copytree(out, backup): the directory of the next bill is created; a failure is
\* collected and the bill passed over.
Move1Mkdir ==
    /\ pc = "move1copy"
    /\ cp.cur = << >>
    /\ \E k \in out.dirs \ cp.done :
          \/ /\ backup' = [backup EXCEPT !.dirs = @ \cup {k}]
             /\ cp' = [cp EXCEPT !.cur = k]
          \/ /\ cp' = [cp EXCEPT !.done = @ \cup {k}, !.err = TRUE]
             /\ UNCHANGED backup
    /\ UNCHANGED << out, tmpdir, swapStarted, pc, exc, failPhase >>
    /\ SwapFrame

\* copytree(out, backup): the descriptor of the bill is copied; a failure, which
\* may leave the file cut short or whole, is collected and the copy goes on with
\* the next bill.
Move1Copy ==
    /\ pc = "move1copy"
    /\ cp.cur # << >>
    /\ \/ /\ backup' = [backup EXCEPT
                  !.files = @ \cup {e \in out.files : e[1] = cp.cur}]
          /\ cp' = [cp EXCEPT !.done = @ \cup {cp.cur}, !.cur = << >>]
       \/ /\ cp' = [cp EXCEPT !.done = @ \cup {cp.cur}, !.cur = << >>, !.err = TRUE]
          /\ UNCHANGED backup
       \/ /\ \E e \in {x \in out.files : x[1] = cp.cur} :
                \E g \in LeftByFailedCopy(e[2]) :
                   backup' = [backup EXCEPT !.files = @ \cup {<< cp.cur, g >>}]
          /\ cp' = [cp EXCEPT !.done = @ \cup {cp.cur}, !.cur = << >>, !.err = TRUE]
    /\ UNCHANGED << out, tmpdir, swapStarted, pc, exc, failPhase >>
    /\ SwapFrame

\* End of copytree(out, backup): the closing copystat may fail; the errors
\* collected are raised and the source stays, else rmtree(out).
Move1CopyEnd ==
    /\ pc = "move1copy"
    /\ cp.cur = << >> /\ cp.done = out.dirs
    /\ \/ /\ Raise("Error", "move1")
          /\ UNCHANGED out
       \/ /\ ~cp.err
          /\ out' = AbsentTree
          /\ pc' = "move2"
          /\ UNCHANGED << exc, failPhase >>
    /\ cp' = NoCopy
    /\ UNCHANGED << backup, tmpdir, swapStarted >>
    /\ SwapFrame

\* shutil.move(str(tmpdir), str(out)), line 349.
Move2Rename ==
    /\ pc = "move2"
    /\ swapStarted' = TRUE
    /\ \/ /\ out' = tmpdir
          /\ tmpdir' = AbsentTree
          /\ pc' = "finish"
          /\ UNCHANGED << backup, exc, failPhase >>
       \/ /\ out' = EmptyDir
          /\ pc' = "move2copy"
          /\ UNCHANGED << backup, tmpdir, exc, failPhase >>
       \/ /\ Raise("OSError", "move2")
          /\ UNCHANGED << out, backup, tmpdir >>
    /\ cp' = NoCopy
    /\ SwapFrame

\* copytree(tmpdir, out): the directory of the next bill is created; a failure
\* is collected and the bill passed over.
Move2Mkdir ==
    /\ pc = "move2copy"
    /\ cp.cur = << >>
    /\ \E k \in tmpdir.dirs \ cp.done :
          \/ /\ out' = [out EXCEPT !.dirs = @ \cup {k}]
             /\ cp' = [cp EXCEPT !.cur = k]
          \/ /\ cp' = [cp EXCEPT !.done = @ \cup {k}, !.err = TRUE]
             /\ UNCHANGED out
    /\ UNCHANGED << backup, tmpdir, swapStarted, pc, exc, failPhase >>
    /\ SwapFrame

\* copytree(tmpdir, out): the descriptor of the bill is copied; a failure, which
\* may leave the file cut short or whole, is collected and the copy goes on with
\* the next bill.
Move2Copy ==
    /\ pc = "move2copy"
    /\ cp.cur # << >>
    /\ \/ /\ out' = [out EXCEPT
                  !.files = @ \cup {e \in tmpdir.files : e[1] = cp.cur}]
          /\ cp' = [cp EXCEPT !.done = @ \cup {cp.cur}, !.cur = << >>]
       \/ /\ cp' = [cp EXCEPT !.done = @ \cup {cp.cur}, !.cur = << >>, !.err = TRUE]
          /\ UNCHANGED out
       \/ /\ \E e \in {x \in tmpdir.files : x[1] = cp.cur} :
                \E g \in LeftByFailedCopy(e[2]) :
                   out' = [out EXCEPT !.files = @ \cup {<< cp.cur, g >>}]
          /\ cp' = [cp EXCEPT !.done = @ \cup {cp.cur}, !.cur = << >>, !.err = TRUE]
    /\ UNCHANGED << backup, tmpdir, swapStarted, pc, exc, failPhase >>
    /\ SwapFrame

\* End of copytree(tmpdir, out): the closing copystat may fail; the errors
\* collected are raised and the source stays, else rmtree(tmpdir).
Move2CopyEnd ==
    /\ pc = "move2copy"
    /\ cp.cur = << >> /\ cp.done = tmpdir.dirs
    /\ \/ /\ Raise("Error", "move2")
          /\ UNCHANGED tmpdir
       \/ /\ ~cp.err
          /\ tmpdir' = AbsentTree
          /\ pc' = "finish"
          /\ UNCHANGED << exc, failPhase >>
    /\ cp' = NoCopy
    /\ UNCHANGED << out, backup, swapStarted >>
    /\ SwapFrame

\* Lines 350-352: the backup is removed and the script ends.
Finish ==
    /\ pc = "finish"
    /\ backup' = IF backupBound /\ backup.ex THEN AbsentTree ELSE backup
    /\ pc' = "done"
    /\ exitCode' = 0
    /\ UNCHANGED << data, out, tmpdir, leaked, run, text_files, fi, groups, skipped, ki,
                    picked, backupBound, exc, failPhase, winner, out0, backup0,
                    swapStarted, created, prev, cp, swallowed, selIn, selOut >>

HandlerKeepsScratch ==
    /\ pc = "handler"
    /\ pc' = "raised"
    /\ exitCode' = 1
    /\ UNCHANGED << data, out, backup, tmpdir, leaked, run, text_files, fi, groups,
                    skipped, ki, picked, backupBound, exc, failPhase, winner, out0,
                    backup0, swapStarted, created, prev, cp, swallowed, selIn, selOut >>

\* except Exception (lines 353-360): remove the scratch directory, passing over
\* a failure of the removal, and re-raise.
Handler ==
    /\ pc = "handler"
    /\ \/ /\ tmpdir' = IF tmpdir.ex THEN AbsentTree ELSE tmpdir
          /\ UNCHANGED swallowed
       \/ /\ tmpdir.ex
          /\ tmpdir' \in LeftByFailedRmtree(tmpdir)
          /\ swallowed' = TRUE
    /\ pc' = "raised"
    /\ exitCode' = 1
    /\ UNCHANGED << data, out, backup, leaked, run, text_files, fi, groups, skipped,
                    ki, picked, backupBound, exc, failPhase, winner, out0, backup0,
                    swapStarted, created, prev, cp, selIn, selOut >>

Ended == pc \in {"done", "exit2", "raised"}

\* The script is run again on the tree the previous run left, after a run that
\* ended without an error (published, or exit status 2).  Between the runs the
\* version directories may be made to accept writes: a change from outside, recorded
\* in prev.changed.
NextRun ==
    /\ pc \in {"done", "exit2"}
    /\ run < MaxRuns
    /\ run' = run + 1
    /\ \E fix \in BOOLEAN :
          data' = IF fix THEN [i \in VIdx |-> [data[i] EXCEPT !.write = "ok"]]
                  ELSE data
    /\ prev' = [ended |-> pc, out |-> out, winner |-> winner, data |-> data,
                changed |-> data' # data]
    /\ leaked' = leaked + (IF tmpdir.ex THEN 1 ELSE 0)
    /\ out0' = out /\ backup0' = backup
    /\ pc' = "start"
    /\ text_files' = << >> /\ fi' = 0 /\ groups' = << >> /\ skipped' = 0
    /\ ki' = 0 /\ picked' = 0 /\ backupBound' = FALSE
    /\ exc' = "none" /\ failPhase' = "none" /\ exitCode' = -1
    /\ winner' = << >> /\ swapStarted' = FALSE /\ created' = 0
    /\ tmpdir' = AbsentTree
    /\ UNCHANGED << out, backup, cp, swallowed, selIn, selOut >>

Next ==
    \/ ensure_data_jsons \/ Gather \/ GroupStep \/ MkTemp \/ StageGroup
    \/ CheckPicked \/ RmStale
    \/ Move1Rename \/ Move1Mkdir \/ Move1Copy \/ Move1CopyEnd
    \/ Move2Rename \/ Move2Mkdir \/ Move2Copy \/ Move2CopyEnd
    \/ Finish \/ Handler \/ NextRun

Spec == Init /\ [][Next]_vars


\* ------------------------------------------------------------- the selector alone
TsZ(d) == << DateTok(d), SepTok, TimeTok(0), ZTok >>
TsOff(d, o) == << DateTok(d), SepTok, TimeTok(0), OffTok(o) >>
TsLocal(d, h) == << DateTok(d), SepTok, TimeTok(h) >>

\* Descriptors of every shape the date extraction distinguishes.
SelDescs ==
    {ObjDesc(Str(<< DateTok(d) >>), Null, Null, 0) : d \in Days}
    \cup {ObjDesc(Str(TsZ(1)), Null, Null, 0),
          ObjDesc(Str(TsOff(MaxDay, 1)), Null, Null, 0),
          ObjDesc(Str(TsLocal(1, 1)), Null, Null, 0),
          ObjDesc(Str(<< DateTok(1), SpTok, TimeTok(0) >>), Null, Null, 0),
          ObjDesc(Str(<< JunkTok >>), Null, Null, 0),
          ObjDesc(Str(<< DateTok(1), ZTok >>), Null, Null, 0),
          ObjDesc(Str(<< DateTok(1), SepTok, JunkTok, ZTok >>), Null, Null, 0),
          ObjDesc(Str(<< >>), Str(<< DateTok(MaxDay) >>), Null, 0),
          ObjDesc(Null, Null, Str(TsZ(MaxDay)), 0),
          ObjDesc(Num, Str(<< DateTok(1) >>), Null, 0),
          ObjDesc(Null, Null, Null, 0),
          Malformed(0), ArrayDesc(0)}

\* Members of a group: readable files, and a file that vanished after the listing
\* (open and stat fail).
SelFiles ==
    {[c |-> c, m |-> m, ex |-> TRUE] : c \in SelDescs, m \in Times}
    \cup {[c |-> Malformed(0), m |-> 0, ex |-> FALSE]}

IdleRun ==
    /\ data = [i \in VIdx |-> AbsentDir]
    /\ out = AbsentTree /\ backup = AbsentTree
    /\ out0 = out /\ backup0 = backup
    /\ run = 1 /\ leaked = 0 /\ prev = NoPrev
    /\ tmpdir = AbsentTree /\ cp = NoCopy /\ swallowed = FALSE
    /\ ki = 0 /\ picked = 0 /\ backupBound = FALSE
    /\ exc = "none" /\ failPhase = "none" /\ exitCode = -1
    /\ winner = << >> /\ swapStarted = FALSE /\ created = 0

InitSelect ==
    /\ IdleRun
    /\ text_files = << >> /\ fi = 0 /\ groups = << >> /\ skipped = 0
    /\ pc = "select"
    /\ selIn \in UNION {[1..n -> SelFiles] : n \in 1..MaxGroup}
    /\ selOut = NoBest

\* The selector applied to the group (lines 311-326).
Select ==
    /\ pc = "select"
    /\ selOut' = PickBest(selIn)
    /\ pc' = "selected"
    /\ UNCHANGED << data, out, backup, tmpdir, leaked, run, text_files, fi, groups,
                    skipped, ki, picked, backupBound, exc, failPhase, exitCode, winner,
                    out0, backup0, swapStarted, created, prev, cp, swallowed, selIn >>

NextSelect == Select

SpecSelect == InitSelect /\ [][NextSelect]_vars

\* ------------------------------------------------------------- the classifier alone
PathSegs == {"118", "bills"}
Paths == UNION {[1..n -> PathSegs] : n \in 0..MaxPathLen}

\* The grouping loop started on a sorted list of at most two paths of any shape.
InitKey ==
    /\ IdleRun
    /\ NoExtras
    /\ text_files \in {<< >>} \cup {<< a >> : a \in Paths}
                      \cup {q \in Paths \X Paths : SeqLess(q[1], q[2])}
    /\ fi = 0 /\ groups = << >> /\ skipped = 0
    /\ pc = IF text_files = << >> THEN "mktemp" ELSE "group"

NextKey == GroupStep

SpecKey == InitKey /\ [][NextKey]_vars


\* ------------------------------------------------------------- vocabulary of the properties
\* (effective date, mtime) of a member, and the order on such tuples.
Tuple(f) == [dt |-> candidate_date(f), tie |-> mtime_dt(f)]
TupleEq(a, b) == DtEq(a.dt, b.dt) /\ DtEq(a.tie, b.tie)
TupleGE(a, b) ==
    /\ Comparable(a.dt, b.dt)
    /\ \/ DtGt(a.dt, b.dt)
       \/ (DtEq(a.dt, b.dt) /\ (DtGt(a.tie, b.tie) \/ DtEq(a.tie, b.tie)))

\* Member i of the list is maximal and no earlier member equals it.
IsFirstMax(files, i) ==
    /\ i \in 1..Len(files)
    /\ \A j \in 1..Len(files) : TupleGE(Tuple(files[i]), Tuple(files[j]))
    /\ \A j \in 1..(i - 1) : ~TupleEq(Tuple(files[j]), Tuple(files[i]))

\* The bill of a version directory, read off the layout
\* <root>/<congress>/bills/<type>/<id>/text-versions/<version>.
DirKey(i) == << VersionDirs[i][2], VersionDirs[i][4], VersionDirs[i][5] >>
HasDescriptor(i) == data[i].present /\ data[i].hasDesc
BillKeys == {DirKey(i) : i \in {j \in VIdx : HasDescriptor(j)}}
DirFile(i) == [c |-> data[i].desc, m |-> data[i].mtime, ex |-> TRUE]

\* Version directory i holds the winning version of its bill.
IsWinningDir(i) ==
    /\ HasDescriptor(i)
    /\ \A j \in VIdx : (HasDescriptor(j) /\ DirKey(j) = DirKey(i))
                          => TupleGE(Tuple(DirFile(i)), Tuple(DirFile(j)))
    /\ \A j \in 1..(i - 1) : (HasDescriptor(j) /\ DirKey(j) = DirKey(i))
                          => ~TupleEq(Tuple(DirFile(j)), Tuple(DirFile(i)))

\* The tree a run is to publish: one descriptor per bill, a copy of the winner's.
NewTree ==
    [ex |-> TRUE, dirs |-> BillKeys,
     files |-> {<< DirKey(i), [c |-> data[i].desc, m |-> data[i].mtime] >> :
                   i \in {j \in VIdx : IsWinningDir(j)}}]

AfterStaging ==
    \/ pc \in {"check", "exit2", "rmstale", "move1", "move1copy", "move2",
               "move2copy", "finish", "done"}
    \/ (pc \in {"handler", "raised"} /\ failPhase # "staging")

\* C1: when a published tree existed at the start of the run, latest_billtext
\* holds, in every state of the run, exactly the previous tree or exactly the
\* complete new tree.
C1_PublishedAtomic == out0.ex => (out = out0 \/ out = NewTree)

\* C9: when a run has ended (published, exit status 2, or an error), its scratch
\* directory no longer exists.
C9_ScratchCleaned == Ended => ~tmpdir.ex

\* C4: no run is aborted by the comparison of dates, and every group of a run
\* that got past the selection has exactly one winner.
C4_SelectionNeverFails ==
    /\ exc # "TypeError"
    /\ AfterStaging => DOMAIN winner = DOMAIN groups


\* C2: when no bill was picked in the whole run, the run ends with exit status 2
\* before any step of the swap, and latest_billtext and the backup location are
\* as they were when the run started.
C2_ZeroWinners ==
    (AfterStaging /\ picked = 0) =>
        /\ out = out0 /\ backup = backup0 /\ ~swapStarted
        /\ pc \in {"check", "exit2"}
        /\ pc = "exit2" => exitCode = 2

\* A run over a tree without candidates has ended with status 2 beside a published
\* tree and a backup, both left alone.
C2_Witness ==
    /\ pc = "exit2" /\ exitCode = 2 /\ text_files = << >>
    /\ out0.ex /\ backup0.ex /\ out = out0 /\ backup = backup0

\* C3 as stated: when an error is raised while a winner is staged, the scratch
\* directory is removed, the error leaves the run, and latest_billtext and the
\* backup location are unchanged, no step of the swap having run.
C3_ScratchAlwaysRemoved ==
    failPhase = "staging" =>
        /\ exc # "none"
        /\ pc \in {"handler", "raised"}
        /\ out = out0 /\ backup = backup0 /\ ~swapStarted
        /\ pc = "raised" => (~tmpdir.ex /\ exitCode = 1)

\* C3 amended: when an error is raised while a winner is staged, the handler
\* removes the scratch directory unless the removal itself fails, a failure it
\* passes over; the error raised in staging leaves the run (exit status 1), and
\* latest_billtext and the backup location are unchanged, no step of the swap
\* having run.
C3_StagingFailure ==
    failPhase = "staging" =>
        /\ exc # "none"
        /\ pc \in {"handler", "raised"}
        /\ out = out0 /\ backup = backup0 /\ ~swapStarted
        /\ pc = "handler" => (tmpdir.ex /\ ~swallowed)
        /\ pc = "raised" => (exitCode = 1 /\ (tmpdir.ex <=> swallowed))

\* The copy of the second winner failed after the first was staged; the run has
\* ended with the error.
C3_Witness ==
    /\ pc = "raised" /\ failPhase = "staging" /\ exc = "OSError"
    /\ picked = 1 /\ out0.ex /\ backup0.ex
    /\ ~tmpdir.ex /\ ~swallowed /\ exitCode = 1

\* C7: after a successful run latest_billtext holds, for every bill with a
\* classified candidate, exactly one descriptor, a copy of its winning version's,
\* and nothing else; the number of descriptors is the number of groups.
C7_PublishedContents ==
    pc = "done" =>
        /\ out = NewTree
        /\ DOMAIN groups = BillKeys
        /\ Cardinality(out.files) = Cardinality(DOMAIN groups)
        /\ \A k \in BillKeys : Cardinality({e \in out.files : e[1] = k}) = 1
        /\ \A e \in out.files : e[1] \in BillKeys

\* Two bills are published over a tree that held another bill; the winner of hr1
\* is the second of its two versions.
C7_Witness ==
    /\ pc = "done" /\ out0 = OldTree
    /\ Cardinality(out.files) = 2
    /\ OldKey \notin out.dirs
    /\ HasDescriptor(1) /\ IsWinningDir(2)

\* C8: with no change from outside between the runs, a run that publishes right
\* after a run that published leaves the same latest_billtext and picks the same
\* winners; the second run writes no descriptor and leaves the data tree as the
\* first left it.
C8_Idempotent ==
    (run > 1 /\ ~prev.changed) =>
        /\ (prev.ended = "done" /\ pc = "done") =>
               (out = prev.out /\ winner = prev.winner)
        /\ pc # "start" => (created = 0 /\ data = prev.data)

\* The second run has published again; the winner of hr1 is the descriptor the
\* first run synthesized for its second version, written later than the latest
\* time of the input tree and so ahead of the first version's descriptor, which
\* has the same date.
C8_Witness ==
    /\ run = 2 /\ pc = "done" /\ prev.ended = "done" /\ ~prev.changed
    /\ HasDescriptor(1) /\ ~data[1].desc.synth /\ data[1].mtime = MaxTime
    /\ HasDescriptor(2) /\ data[2].desc.synth /\ data[2].mtime > MaxTime
    /\ DtEq(candidate_date(DirFile(1)), candidate_date(DirFile(2)))
    /\ IsWinningDir(2)
    /\ \E e \in out.files : e[1] = DirKey(2) /\ e[2].c = data[2].desc

\* C10, the states but the last: the swap starts only when every group has its
\* winner staged; no backup exists when the previous tree is about to be moved;
\* a run that started with a published tree keeps that tree whole at
\* latest_billtext or at the backup location until the new tree is in place.
C10_States ==
    /\ swapStarted => (picked > 0 /\ DOMAIN winner = DOMAIN groups
                       /\ picked = Cardinality(DOMAIN groups))
    /\ pc = "move1" => ~backup.ex
    /\ out0.ex => (out = out0 \/ backup = out0 \/ out = NewTree)

\* C10, the steps: a backup is deleted either as the stale one, with the previous
\* tree still at latest_billtext, or after the scratch tree has become
\* latest_billtext; the previous tree leaves latest_billtext only for the backup
\* location.
C10_Steps ==
    /\ (backup.ex /\ ~backup'.ex) =>
           \/ (out = out0 /\ backup = backup0 /\ ~swapStarted)
           \/ (out = NewTree /\ ~tmpdir.ex /\ pc = "finish")
    /\ (out0.ex /\ out = out0 /\ out' # out) => backup' = out0

\* C10 as stated: the order of the swap as above, and after a successful run no
\* backup remains.
C10_NoBackupAfterSuccess ==
    /\ [](C10_States /\ (pc = "done" => ~backup.ex))
    /\ [][C10_Steps]_vars

\* C10 amended: the swap starts only after every winner is staged; a stale
\* backup is deleted before the previous tree is moved to the backup location;
\* the backup is deleted only after the scratch tree is in place; so a run that
\* started with a published tree keeps that tree whole at latest_billtext or at
\* the backup location until the new tree is in place, also when the second move
\* fails, and leaves no backup when it succeeds; a successful run that started
\* without a published tree leaves the backup location as it found it, a stale
\* backup included.
C10_BackupLifecycle ==
    /\ [](/\ C10_States
          /\ (pc = "done" /\ out0.ex) => ~backup.ex
          /\ (pc = "done" /\ ~out0.ex) => backup = backup0)
    /\ [][C10_Steps]_vars

\* The second move failed; the previous tree sits whole at the backup location
\* and latest_billtext does not hold it.
C10_Witness ==
    /\ pc = "raised" /\ failPhase = "move2"
    /\ out0.ex /\ backup = out0 /\ out # out0 /\ out # NewTree


\* C5: when the selection of a group completes, the winner's tuple (effective
\* date, mtime) is greater than or equal to every member's, and the winner is the
\* first member with that tuple; its date is the member's effective date.
C5_WinnerMaximalStable ==
    (pc = "selected" /\ selOut.st # "error") =>
        /\ selOut.st = "some"
        /\ IsFirstMax(selIn, selOut.i)
        /\ selOut.dt = candidate_date(selIn[selOut.i])
        /\ selOut.tie = mtime_dt(selIn[selOut.i])

\* Two members tie on the tuple, the first of them with an unreadable descriptor
\* (its date is its mtime), the second with a date it states; the first is kept.
C5_Witness ==
    /\ pc = "selected" /\ selOut.st = "some" /\ selOut.i = 1
    /\ Len(selIn) = 2
    /\ selIn[1].c.json = "malformed" /\ selIn[2].c.json = "object"
    /\ parse_date(selIn[2].c.issued_on).kind = "aware"
    /\ TupleEq(Tuple(selIn[1]), Tuple(selIn[2]))

\* The first segment "bills" has a segment before it and two after it.
HasFirstAnchor(p) ==
    \E i \in 2..(Len(p) - 2) :
        p[i] = "bills" /\ \A j \in 1..(i - 1) : p[j] # "bills"

\* The key read at the first segment "bills".
KeyAtFirstAnchor(p, k) ==
    \E i \in 2..(Len(p) - 2) :
        /\ p[i] = "bills" /\ \A j \in 1..(i - 1) : p[j] # "bills"
        /\ k = << p[i - 1], p[i + 1], p[i + 2] >>

\* The paths the grouping loop has gone through.
Processed == {text_files[j] : j \in 1..fi}

InGroups(p) == \E k \in DOMAIN groups : \E j \in 1..Len(groups[k]) : groups[k][j] = p

\* C6 as stated: a path is classified exactly when some segment "bills" has a
\* congress segment (a segment other than "bills") before it and two segments
\* after it, with the key read there; every other path is counted as skipped
\* and is in no group.
C6_AnySegment ==
    LET Anchors(p) == {i \in 2..(Len(p) - 2) : p[i] = "bills" /\ p[i - 1] # "bills"}
    IN  /\ \A p \in Processed :
              IF Anchors(p) # {}
              THEN /\ \E i \in Anchors(p) :
                         key_from_path(p) = << p[i - 1], p[i + 1], p[i + 2] >>
                   /\ InGroups(p)
              ELSE key_from_path(p) = NoKey /\ ~InGroups(p)
        /\ skipped = Cardinality({p \in Processed : Anchors(p) = {}})

\* C6 amended: a path is classified exactly when its first segment "bills" has a
\* segment before it and two after it, with the key read there, and is then
\* appended to the group of that key; every other path is counted as skipped, is
\* in no group, and the loop goes on.
C6_FirstSegment ==
    /\ \A p \in Processed :
          IF HasFirstAnchor(p)
          THEN /\ KeyAtFirstAnchor(p, key_from_path(p))
               /\ key_from_path(p) \in DOMAIN groups
               /\ \E j \in 1..Len(groups[key_from_path(p)]) :
                      groups[key_from_path(p)][j] = p
          ELSE key_from_path(p) = NoKey /\ ~InGroups(p)
    /\ skipped = Cardinality({p \in Processed : ~HasFirstAnchor(p)})
    /\ \A k \in DOMAIN groups : \A j \in 1..Len(groups[k]) : groups[k][j] \in Processed
    /\ fi = Len(text_files) <=> pc = "mktemp"

\* The loop grouped the first path and then skipped a path that starts with
\* "bills" and holds a later "bills" with a segment before it and two after it.
C6_Witness ==
    /\ pc = "mktemp" /\ fi = 2 /\ skipped = 1
    /\ Cardinality(DOMAIN groups) = 1
    /\ text_files[2][1] = "bills"
    /\ \E i \in 3..(Len(text_files[2]) - 2) :
          text_files[2][i] = "bills" /\ text_files[2][i - 1] # "bills"

=============================================================================
